---- MODULE Spec2Model ----
(***************************************************************************)
(* Model of main.py: the retro game music generator.  One run of the main  *)
(* program is modelled: generate_music (chord progression, melody,         *)
(* normalisation, harmony, bass, with its try/except) and save_to_midi.    *)
(*                                                                         *)
(* Durations are counted in units of 0.25 beat, so the source's            *)
(* 0.25, 0.5, 0.75, 1.0, 1.5, 2.0 are 1, 2, 3, 4, 6, 8.                    *)
(*                                                                         *)
(* The random source is a tape of draws fixed at the start of the run:     *)
(* the k-th call of random.choice(seq) takes tape entry k (cyclically)     *)
(* and returns seq[entry mod len(seq)].                                    *)
(***************************************************************************)
EXTENDS Integers, Sequences, FiniteSets, TLC

VARIABLES scale, tape, drawn, pc, chord_progression, current_degree, iteration,
          melody, harmonic_notes, harmony, bass, result, midi

vars == <<scale, tape, drawn, pc, chord_progression, current_degree, iteration,
          melody, harmonic_notes, harmony, bass, result, midi>>

(* ------------------------------ bounds --------------------------------- *)

\* Length of the tape of draws (the tape is read cyclically).
TapeLen == 2

\* A draw is a number in 0 .. DrawRange-1; 9 is the longest list any
\* random.choice of the program picks from, so every element can be picked.
DrawRange == 9

(* ----------------------------- constants ------------------------------- *)

MELODY_LENGTH == 64

MELODY_VELOCITY == 100

HARMONY_VELOCITY == 70

BASS_VELOCITY == 80

\* self.duration = 0.25, in units of 0.25
duration == 1

\* The scale names given to the generator: the four of the catalog and one
\* name the catalog does not hold.
ScaleInputs == {"major", "minor", "dorian", "mixolydian", "lydian"}

(* ------------------------- Python values ------------------------------- *)

\* A str, a 2-tuple, a list and None, tagged with their Python type.
Str(s) == [type |-> "str", s |-> s]

Tuple(a, b) == [type |-> "tuple", note |-> a, dur |-> b]

List(items) == [type |-> "list", items |-> items]

None == [type |-> "NoneType", items |-> <<>>]

\* The outcome of a call: a returned value, or a raised exception.
Return(v) == [ok |-> TRUE, val |-> v]

Raise == [ok |-> FALSE, val |-> <<>>]

\* seq[k] of Python, k counted from 0, negative k from the end.
InRange(seq, k) == k >= 0 - Len(seq) /\ k < Len(seq)

PyGet(seq, k) == IF k >= 0 THEN seq[k + 1] ELSE seq[Len(seq) + k + 1]

(* ------------------------------ MusicScale ----------------------------- *)

notes == <<"C", "D", "E", "F", "G", "A", "B">>

\* Variant: self.scales.get(scale, <the major degrees>), a non-empty default.
get_scale_degrees_default(s) ==
    CASE s = "minor"      -> <<0, 2, 3, 5, 7, 8, 10>>
      [] s = "dorian"     -> <<0, 2, 3, 5, 7, 9, 10>>
      [] s = "mixolydian" -> <<0, 2, 4, 5, 7, 9, 10>>
      [] OTHER            -> <<0, 2, 4, 5, 7, 9, 11>>

\* self.scales.get(scale, [])
get_scale_degrees(s) ==
    CASE s = "major"      -> <<0, 2, 4, 5, 7, 9, 11>>
      [] s = "minor"      -> <<0, 2, 3, 5, 7, 8, 10>>
      [] s = "dorian"     -> <<0, 2, 3, 5, 7, 9, 10>>
      [] s = "mixolydian" -> <<0, 2, 4, 5, 7, 9, 10>>
      [] OTHER            -> <<>>

\* notes.index(letter), counted from 0; -1 stands for ValueError.
notes_index(letter) ==
    IF \E i \in 1..Len(notes) : notes[i] = letter
    THEN (CHOOSE i \in 1..Len(notes) : notes[i] = letter) - 1
    ELSE 0 - 1

(* ------------------------------ random --------------------------------- *)

Draws == 0 .. (DrawRange - 1)

Tapes == [1..TapeLen -> Draws]

\* The d-th draw of the run (d counted from 0).
Draw(tp, d) == tp[(d % Len(tp)) + 1]

\* random.choice(seq) with draw r: IndexError on an empty sequence.
random_choice(seq, r) ==
    IF Len(seq) = 0 THEN Raise ELSE Return(seq[(r % Len(seq)) + 1])

(* ----------------------- ChordProgressionGenerator --------------------- *)

chord_progressions ==
    << <<"I", "IV", "V">>,
       <<"ii", "V", "I">>,
       <<"vi", "IV", "I", "V">>,
       <<"ii", "V", "I", "IV">>,
       <<"I", "iii", "IV", "ii", "V", "vi">> >>

ChordSymbols == {"I", "ii", "iii", "IV", "V", "vi", "vii"}

chord_symbols_to_degrees(sym) ==
    CASE sym = "I"   -> 0
      [] sym = "ii"  -> 1
      [] sym = "iii" -> 2
      [] sym = "IV"  -> 3
      [] sym = "V"   -> 4
      [] sym = "vi"  -> 5
      [] sym = "vii" -> 6

\* Variant: the scale argument narrows the catalog.
generate_chord_progression_byscale(s, r) ==
    IF s = "minor"
    THEN random_choice(SubSeq(chord_progressions, 1, 3), r)
    ELSE random_choice(chord_progressions, r)

\* random.choice(self.chord_progressions); the scale argument is not read.
generate_chord_progression(s, r) == random_choice(chord_progressions, r)

\* Variant: the position of the degree in the scale is added, not its value.
get_harmonic_notes_byposition(chord_symbol, s) ==
    LET chord_degree  == chord_symbols_to_degrees(chord_symbol)
        scale_degrees == get_scale_degrees(s)
    IN  [i \in 1..Len(scale_degrees) |->
            Str(notes[((chord_degree + (i - 1)) % Len(notes)) + 1])]

\* notes[(chord_degree + degree) % len(notes)] for degree in scale_degrees
get_harmonic_notes(chord_symbol, s) ==
    LET chord_degree  == chord_symbols_to_degrees(chord_symbol)
        scale_degrees == get_scale_degrees(s)
    IN  [i \in 1..Len(scale_degrees) |->
            Str(notes[((chord_degree + scale_degrees[i]) % Len(notes)) + 1])]

(* ----------------------- RetroGameMelodyGenerator ---------------------- *)

note_durations == <<1, 2, 3, 4, 6, 8>>

\* Variant: range(MELODY_LENGTH)
MelodyIterations_full == MELODY_LENGTH

\* range(MELODY_LENGTH - 1)
MelodyIterations == MELODY_LENGTH - 1

\* lines 107-111 of generate_melody: the seed degree is a degree VALUE of the
\* scale, and the seed note is appended as a bare letter.
melody_seed(s, r) ==
    LET scale_degrees  == get_scale_degrees(s)
        current == random_choice(scale_degrees, r)
    IN  IF ~current.ok THEN Raise
        ELSE Return([current_degree |-> current.val,
                     melody |-> <<Str(notes[(current.val % Len(notes)) + 1])>>])

\* One iteration of the for loop of generate_melody (lines 114-126) with
\* the draws r1, r2, r3 of its three random.choice calls.
melody_step(current, mel, prog, s, r1, r2, r3) ==
    LET scale_degrees == get_scale_degrees(s)
        chord_symbol  == random_choice(prog, r1)
    IN  IF ~chord_symbol.ok THEN Raise
        ELSE
          LET chord_degree    == chord_symbols_to_degrees(chord_symbol.val)
              available_steps == IF chord_degree \in {0, 3, 4, 6}
                                 THEN <<1, 2, 3, 4, 5, 6>> \o <<6, 7, 8>>
                                 ELSE <<1, 2, 3, 4, 5, 6>>
              step            == random_choice(available_steps, r2)
              next_degree     == (current + step.val) % Len(scale_degrees)
              note_duration   == random_choice(note_durations, r3)
          IN  IF Len(scale_degrees) = 0 \/ ~InRange(notes, next_degree)
              THEN Raise
              ELSE Return([current_degree |-> next_degree,
                           melody |-> Append(mel,
                                        Tuple(Str(PyGet(notes, next_degree)),
                                              note_duration.val))])

(* ----------------------- RetroGameHarmonyGenerator --------------------- *)

\* The first loop of generate_harmony: the notes of every chord, in order.
RECURSIVE HarmonicNotes(_, _)
HarmonicNotes(prog, s) ==
    IF prog = <<>> THEN <<>>
    ELSE get_harmonic_notes(Head(prog), s) \o HarmonicNotes(Tail(prog), s)

\* One comprehension of generate_harmony.
HarmonyPass(mel, pool, offset) ==
    [i \in 1..Len(mel) |->
        IF mel[i].type = "tuple"
        THEN Tuple(pool[((notes_index(mel[i].note.s) + offset) % Len(pool)) + 1],
                   duration)
        ELSE Tuple(mel[i], duration)]

\* A tuple entry raises ZeroDivisionError on an empty pool and ValueError on
\* a letter that is not in notes.
HarmonyRaises(mel, pool) ==
    \E i \in 1..Len(mel) :
        /\ mel[i].type = "tuple"
        /\ (Len(pool) = 0 \/ notes_index(mel[i].note.s) < 0)

\* Variant: the offset-2 comprehension alone.
generate_harmony_onepass(mel, prog, s) ==
    LET pool == HarmonicNotes(prog, s)
    IN  IF HarmonyRaises(mel, pool) THEN Raise
        ELSE Return(HarmonyPass(mel, pool, 2))

\* Variant: the second comprehension with offset 3.
generate_harmony_third(mel, prog, s) ==
    LET pool == HarmonicNotes(prog, s)
    IN  IF HarmonyRaises(mel, pool) THEN Raise
        ELSE Return(HarmonyPass(mel, pool, 2) \o HarmonyPass(mel, pool, 3))

\* The offset-2 comprehension followed by the offset-4 comprehension.
generate_harmony(mel, prog, s) ==
    LET pool == HarmonicNotes(prog, s)
    IN  IF HarmonyRaises(mel, pool) THEN Raise
        ELSE Return(HarmonyPass(mel, pool, 2) \o HarmonyPass(mel, pool, 4))

(* ------------------------ RetroGameBassGenerator ----------------------- *)

\* The tuple branch of generate_bass for an entry (note, dur) whose first
\* component is itself a tuple.
BassTransposed(note, dur, scale_degrees) ==
    LET note_degree      == notes_index(note.note.s)
        bass_note_degree == (note_degree - 9) % Len(scale_degrees)
        bass_index       == scale_degrees[bass_note_degree + 1]
    IN  IF note_degree < 0 \/ Len(scale_degrees) = 0 \/ ~InRange(notes, bass_index)
        THEN Raise
        ELSE Return(Tuple(Str(PyGet(notes, bass_index)), dur))

\* One iteration of the loop of generate_bass: "for note, duration in
\* melody" unpacks the entry (ValueError on a bare letter), then
\* isinstance(note, tuple) is asked of the first component.
BassEntry(e, scale_degrees) ==
    IF e.type # "tuple" THEN Raise
    ELSE IF e.note.type = "tuple"
         THEN BassTransposed(e.note, e.dur, scale_degrees)
         ELSE Return(Tuple(e.note, e.dur))

\* Variant: every bass event gets self.duration.
generate_bass_fixedduration(mel, s) ==
    LET scale_degrees == get_scale_degrees(s)
    IN  IF \E i \in 1..Len(mel) : ~BassEntry(mel[i], scale_degrees).ok
        THEN Raise
        ELSE Return([i \in 1..Len(mel) |->
                        Tuple(BassEntry(mel[i], scale_degrees).val.note, duration)])

\* generate_bass: one event per melody entry, or the first exception.
generate_bass(mel, s) ==
    LET scale_degrees == get_scale_degrees(s)
    IN  IF \E i \in 1..Len(mel) : ~BassEntry(mel[i], scale_degrees).ok
        THEN Raise
        ELSE Return([i \in 1..Len(mel) |-> BassEntry(mel[i], scale_degrees).val])

(* ------------------------ RetroGameMidiGenerator ----------------------- *)

note_to_midi(letter) ==
    CASE letter = "C" -> 60
      [] letter = "D" -> 62
      [] letter = "E" -> 64
      [] letter = "F" -> 65
      [] letter = "G" -> 67
      [] letter = "A" -> 69
      [] letter = "B" -> 71

\* "if note in self.note_to_midi"
InNoteToMidi(letter) == letter \in {"C", "D", "E", "F", "G", "A", "B"}

\* The time the loop of add_notes_to_midi moves on over the entries lo..hi
\* ("time += dur", inside the if).  The loops over a voice are split in
\* halves, which keeps the evaluation shallow; the result is the loop's.
RECURSIVE TimeAdvance(_, _, _)
TimeAdvance(voice, lo, hi) ==
    IF lo > hi THEN 0
    ELSE IF lo = hi
         THEN (IF InNoteToMidi(voice[lo].note.s) THEN voice[lo].dur ELSE 0)
         ELSE LET mid == (lo + hi) \div 2
              IN  TimeAdvance(voice, lo, mid) + TimeAdvance(voice, mid + 1, hi)

\* The notes add_notes_to_midi adds for the entries lo..hi when it reaches
\* entry lo at the given time: midi.addNote(track, 0, pitch, time, dur,
\* velocity) for every entry whose letter is a key of note_to_midi.
RECURSIVE AddedNotes(_, _, _, _, _, _)
AddedNotes(voice, velocity, lo, hi, time, track) ==
    IF lo > hi THEN <<>>
    ELSE IF lo = hi
         THEN (IF InNoteToMidi(voice[lo].note.s)
               THEN << [track |-> track, channel |-> 0,
                        pitch |-> note_to_midi(voice[lo].note.s),
                        time |-> time, dur |-> voice[lo].dur,
                        velocity |-> velocity] >>
               ELSE <<>>)
         ELSE LET mid == (lo + hi) \div 2
              IN  AddedNotes(voice, velocity, lo, mid, time, track)
                  \o AddedNotes(voice, velocity, mid + 1, hi,
                                time + TimeAdvance(voice, lo, mid), track)

add_notes_to_midi(file, voice, velocity, time, track) ==
    file \o AddedNotes(voice, velocity, 1, Len(voice), time, track)

\* sum(dur for _, _, dur in voice[lo..hi])
RECURSIVE SumDur(_, _, _)
SumDur(voice, lo, hi) ==
    IF lo > hi THEN 0
    ELSE IF lo = hi THEN voice[lo].dur
         ELSE LET mid == (lo + hi) \div 2
              IN  SumDur(voice, lo, mid) + SumDur(voice, mid + 1, hi)

\* line 271: time = sum(dur for _, _, dur in harmony_notes)
BassStart(mel, har) == SumDur(har, 1, Len(har))

\* The three add_notes_to_midi calls of save_to_midi and the time between.
save_to_midi(mel, har, bas) ==
    LET time0 == 0
        midi1 == add_notes_to_midi(<<>>, mel, MELODY_VELOCITY, time0, 0)
        time1 == SumDur(mel, 1, Len(mel))
        midi2 == add_notes_to_midi(midi1, har, HARMONY_VELOCITY, time1, 1)
        time2 == BassStart(mel, har)
    IN  add_notes_to_midi(midi2, bas, BASS_VELOCITY, time2, 2)

(* ------------------------ RetroGameMusicGenerator ---------------------- *)

\* line 232: a bare letter becomes (letter, self.duration).
Normalize(mel) ==
    [i \in 1..Len(mel) |->
        IF mel[i].type = "str" THEN Tuple(mel[i], duration) ELSE mel[i]]

Init ==
    /\ scale \in ScaleInputs
    /\ tape \in Tapes
    /\ drawn = 0
    /\ pc = "start"
    /\ chord_progression = <<>>
    /\ current_degree = 0
    /\ iteration = 0
    /\ melody = <<>>
    /\ harmonic_notes = <<>>
    /\ harmony = <<>>
    /\ bass = <<>>
    /\ result = <<>>
    /\ midi = <<>>

\* line 228
GenerateChordProgression ==
    /\ pc = "start"
    /\ LET r == generate_chord_progression(scale, Draw(tape, drawn))
       IN  IF r.ok
           THEN /\ chord_progression' = r.val
                /\ drawn' = drawn + 1
                /\ pc' = "melody"
           ELSE /\ pc' = "except"
                /\ UNCHANGED <<chord_progression, drawn>>
    /\ UNCHANGED <<scale, tape, current_degree, iteration, melody, harmonic_notes, harmony, bass, result, midi>>

\* lines 229-230, generate_melody up to the seed note (lines 107-111)
GenerateMelodySeed ==
    /\ pc = "melody"
    /\ LET r == melody_seed(scale, Draw(tape, drawn))
       IN  IF r.ok
           THEN /\ current_degree' = r.val.current_degree
                /\ melody' = r.val.melody
                /\ drawn' = drawn + 1
                /\ pc' = IF MelodyIterations > 0 THEN "melody_loop" ELSE "normalize"
           ELSE /\ pc' = "except"
                /\ UNCHANGED <<current_degree, melody, drawn>>
    /\ UNCHANGED <<scale, tape, chord_progression, iteration, harmonic_notes,
                   harmony, bass, result, midi>>

\* one iteration of the loop of generate_melody (lines 113-126); after the
\* last one generate_melody returns (line 128)
GenerateMelodyStep ==
    /\ pc = "melody_loop"
    /\ LET r == melody_step(current_degree, melody, chord_progression, scale,
                            Draw(tape, drawn), Draw(tape, drawn + 1),
                            Draw(tape, drawn + 2))
       IN  IF r.ok
           THEN /\ current_degree' = r.val.current_degree
                /\ melody' = r.val.melody
                /\ drawn' = drawn + 3
                /\ iteration' = iteration + 1
                /\ pc' = IF iteration + 1 < MelodyIterations
                         THEN "melody_loop" ELSE "normalize"
           ELSE /\ pc' = "except"
                /\ UNCHANGED <<current_degree, melody, drawn, iteration>>
    /\ UNCHANGED <<scale, tape, chord_progression, harmonic_notes, harmony, bass,
                   result, midi>>

\* line 232
NormalizeMelody ==
    /\ pc = "normalize"
    /\ melody' = Normalize(melody)
    /\ pc' = "harmony"
    /\ UNCHANGED <<scale, tape, current_degree, iteration, drawn, chord_progression, harmonic_notes, harmony,
                   bass, result, midi>>

\* lines 234-235
GenerateHarmony ==
    /\ pc = "harmony"
    /\ harmonic_notes' = HarmonicNotes(chord_progression, scale)
    /\ LET r == generate_harmony(melody, chord_progression, scale)
       IN  IF r.ok
           THEN /\ harmony' = r.val
                /\ pc' = "bass"
           ELSE /\ pc' = "except"
                /\ UNCHANGED harmony
    /\ UNCHANGED <<scale, tape, current_degree, iteration, drawn, chord_progression, melody, bass, result, midi>>

\* lines 237-238
GenerateBass ==
    /\ pc = "bass"
    /\ LET r == generate_bass(melody, scale)
       IN  IF r.ok
           THEN /\ bass' = r.val
                /\ pc' = "return"
           ELSE /\ pc' = "except"
                /\ UNCHANGED bass
    /\ UNCHANGED <<scale, tape, current_degree, iteration, drawn, chord_progression, melody, harmonic_notes,
                   harmony, result, midi>>

\* line 240
ReturnMusic ==
    /\ pc = "return"
    /\ result' = <<List(melody), List(harmony), List(bass)>>
    /\ pc' = "generated"
    /\ UNCHANGED <<scale, tape, current_degree, iteration, drawn, chord_progression, melody, harmonic_notes,
                   harmony, bass, midi>>

\* lines 241-243
ExceptMusic ==
    /\ pc = "except"
    /\ result' = <<None, None, None>>
    /\ pc' = "generated"
    /\ UNCHANGED <<scale, tape, current_degree, iteration, drawn, chord_progression, melody, harmonic_notes,
                   harmony, bass, midi>>

\* lines 287-288 and save_to_midi
SaveToMidi ==
    /\ pc = "generated"
    /\ \A k \in 1..3 : result[k].type # "NoneType"
    /\ midi' = save_to_midi(result[1].items, result[2].items, result[3].items)
    /\ pc' = "saved"
    /\ UNCHANGED <<scale, tape, current_degree, iteration, drawn, chord_progression, melody, harmonic_notes,
                   harmony, bass, result>>

\* line 287, the condition false: the program ends without a file
Exit ==
    /\ pc = "generated"
    /\ \E k \in 1..3 : result[k].type = "NoneType"
    /\ pc' = "exit"
    /\ UNCHANGED <<scale, tape, current_degree, iteration, drawn, chord_progression, melody, harmonic_notes,
                   harmony, bass, result, midi>>

Next ==
    \/ GenerateChordProgression
    \/ GenerateMelodySeed
    \/ GenerateMelodyStep
    \/ NormalizeMelody
    \/ GenerateHarmony
    \/ GenerateBass
    \/ ReturnMusic
    \/ ExceptMusic
    \/ SaveToMidi
    \/ Exit

Spec == Init /\ [][Next]_vars

(* ------------------------------ properties ----------------------------- *)

BuiltInScales == {"major", "minor", "dorian", "mixolydian"}

Letters == {"C", "D", "E", "F", "G", "A", "B"}

\* 0.25, 0.5, 0.75, 1.0, 1.5, 2.0 in units of 0.25
DurationSet == {1, 2, 3, 4, 6, 8}

\* generate_music has returned
Returned == pc \in {"generated", "saved", "exit"}

\* An event is a (letter, duration) pair.
IsEvent(e) == e.type = "tuple" /\ e.note.type = "str" /\ e.note.s \in Letters

AllNone == \A k \in 1..3 : result[k].type = "NoneType"

Complete(k, n) == result[k].type = "list" /\ Len(result[k].items) = n

\* C1: for a built-in scale, the melody generate_music returns has exactly
\* 64 events, each a (letter, duration) pair with the letter one of
\* C,D,E,F,G,A,B and the duration one of 0.25, 0.5, 0.75, 1.0, 1.5, 2.0.
C1_MelodyShape ==
    (Returned /\ scale \in BuiltInScales /\ result[1].type = "list") =>
        LET m == result[1].items
        IN  /\ Len(m) = 64
            /\ \A i \in 1..Len(m) : IsEvent(m[i]) /\ m[i].dur \in DurationSet

C1_Witness ==
    /\ pc = "generated"
    /\ scale = "dorian"
    /\ result[1].type = "list"
    /\ \E i \in 1..Len(result[1].items) : result[1].items[i].dur = 8
    /\ \E i \in 1..Len(result[1].items) : result[1].items[i].note.s = "B"

\* generate_harmony has returned
HarmonyDone ==
    pc \in {"bass", "return"} \/ (Returned /\ result[2].type = "list")

\* C2: for a built-in scale and the progression chosen from the catalog,
\* generate_harmony returns exactly 2 x len(melody) events (128), every one
\* of duration 0.25 whatever the melody durations, every letter one of
\* C,D,E,F,G,A,B.
C2_HarmonyShape ==
    (HarmonyDone /\ scale \in BuiltInScales) =>
        /\ Len(harmony) = 2 * Len(melody)
        /\ Len(harmony) = 128
        /\ \A i \in 1..Len(harmony) : IsEvent(harmony[i]) /\ harmony[i].dur = 1

C2_Witness ==
    /\ pc = "bass"
    /\ scale = "mixolydian"
    /\ Len(harmony) = 128
    /\ \E i \in 1..Len(melody) : melody[i].dur = 8 /\ harmony[i].dur = 1

\* generate_bass has returned
BassDone == pc = "return" \/ (Returned /\ result[3].type = "list")

\* C3: for a built-in scale generate_bass returns a sequence as long as the
\* normalized melody, and the duration of bass[i] is that of melody[i].
C3_BassShape ==
    (BassDone /\ scale \in BuiltInScales) =>
        /\ Len(bass) = Len(melody)
        /\ \A i \in 1..Len(melody) : bass[i].dur = melody[i].dur

C3_Witness ==
    /\ pc = "return"
    /\ scale = "major"
    /\ Len(bass) = 64
    /\ \E i \in 1..Len(melody) : melody[i].dur = 6 /\ bass[i].dur = 6

\* C4: generate_music returns either three complete sequences (64, 128 and
\* 64 events) or (None, None, None), never a mix; for a scale name that is
\* not built in the seed draw fails, no note is made and the result is
\* (None, None, None).
C4_AllOrNothing ==
    Returned =>
        /\ AllNone \/ (Complete(1, 64) /\ Complete(2, 128) /\ Complete(3, 64))
        /\ scale \notin BuiltInScales => (AllNone /\ melody = <<>>)

C4_Witness ==
    /\ pc = "exit"
    /\ scale \notin BuiltInScales
    /\ AllNone
    /\ chord_progression # <<>>

\* The degree value generate_bass's tuple branch would read for a melody
\* event: degrees[(idx - 9) mod 7].
BassDegreeValue(e, s) ==
    get_scale_degrees(s)[((notes_index(e.note.s) - 9) % 7) + 1]

\* C5: the bass note of every melody event is NoteAlphabet[degrees[(idx - 9)
\* mod 7]] by direct indexing; when that degree value is 7 or more for some
\* melody event the lookup is out of range and generate_music returns no
\* composition.
C5_BassDirectIndexing ==
    (Returned /\ scale \in BuiltInScales /\ melody # <<>>) =>
        IF \E i \in 1..Len(melody) : BassDegreeValue(melody[i], scale) >= 7
        THEN AllNone
        ELSE /\ result[3].type = "list"
             /\ \A i \in 1..Len(melody) :
                    result[3].items[i].note.s
                        = notes[BassDegreeValue(melody[i], scale) + 1]

\* C7: generate_chord_progression returns one of the 5 catalog progressions
\* (non-empty, of length 3, 4 or 6, every symbol one of I, ii, iii, IV, V,
\* vi, vii); each of the 5 is a possible result; and the result for the draw
\* made, like the set of possible results, is the same whatever the scale
\* argument, unknown names included.
C7_ProgressionFromCatalog ==
    /\ pc # "start" =>
          /\ \E p \in 1..5 : chord_progression = chord_progressions[p]
          /\ Len(chord_progression) \in {3, 4, 6}
          /\ \A k \in 1..Len(chord_progression) : chord_progression[k] \in ChordSymbols
    /\ pc = "melody" =>
          \A s \in ScaleInputs :
              /\ generate_chord_progression(s, Draw(tape, drawn - 1))
                    = Return(chord_progression)
              /\ {generate_chord_progression(s, q).val : q \in Draws}
                    = {chord_progressions[p] : p \in 1..5}

C7_Witness ==
    /\ pc = "melody"
    /\ scale = "lydian"
    /\ chord_progression = <<"I", "iii", "IV", "ii", "V", "vi">>

\* The notes generate_harmony collected for the first chord of the
\* progression, as letters.
FirstChordNotes == [i \in 1..7 |-> harmonic_notes[i].s]

C8_Case ==
    /\ pc \in {"bass", "return"}
    /\ scale = "major"
    /\ chord_progression[1] = "I"

\* C8 as stated: get_harmonic_notes for chord symbol I and scale major
\* returns the letters C,D,E,F,G,A,B.
C8_HarmonicNotesDiatonic ==
    C8_Case => FirstChordNotes = <<"C", "D", "E", "F", "G", "A", "B">>

\* C8 amended: get_harmonic_notes for chord symbol I and scale major returns
\* the letters C,E,G,A,C,E,G (the degree values 0,2,4,5,7,9,11 taken mod 7).
C8_HarmonicNotesWrapped ==
    C8_Case =>
        /\ FirstChordNotes = <<"C", "E", "G", "A", "C", "E", "G">>
        /\ get_harmonic_notes("I", "major")
              = [i \in 1..7 |-> Str(<<"C", "E", "G", "A", "C", "E", "G">>[i])]

C8_Witness == C8_Case /\ Len(harmonic_notes) = 21

\* The pool as the specification states it: for the symbols of the progression in order, the
\* letters NoteAlphabet[(degreeIndexOf(symbol) + g) mod 7] for g in degrees.
StatedPool(prog, s) ==
    [k \in 1..(7 * Len(prog)) |->
        notes[((chord_symbols_to_degrees(prog[((k - 1) \div 7) + 1])
                + get_scale_degrees(s)[((k - 1) % 7) + 1]) % 7) + 1]]

\* C9: for a built-in scale, generate_harmony's output is the offset-2 pass
\* followed by the offset-4 pass over the pool (of length 7 x
\* len(progression)): harmony[i] is pool[(idx + 2) mod len(pool)] and
\* harmony[len(melody) + i] is pool[(idx + 4) mod len(pool)], idx the index
\* of the letter of melody[i].
C9_HarmonyPasses ==
    (pc \in {"bass", "return"} /\ scale \in BuiltInScales) =>
        LET pool == StatedPool(chord_progression, scale)
            n    == Len(melody)
        IN  /\ Len(pool) = 7 * Len(chord_progression)
            /\ Len(harmony) = 2 * n
            /\ \A i \in 1..n :
                 LET idx == notes_index(melody[i].note.s)
                 IN  /\ harmony[i].note.s = pool[((idx + 2) % Len(pool)) + 1]
                     /\ harmony[n + i].note.s = pool[((idx + 4) % Len(pool)) + 1]

C9_Witness ==
    /\ pc = "bass"
    /\ scale = "minor"
    /\ Len(chord_progression) = 6
    /\ \E i \in 1..Len(melody) : melody[i].note.s = "B" /\ melody[i].dur # 1
    /\ \E i \in 1..Len(melody) : harmony[i].note.s # harmony[Len(melody) + i].note.s

\* The end of a placed note.
NoteEnd(n) == n.time + n.dur

\* C10: in save_to_midi the three voices are laid end to end: within a voice
\* each note starts when the previous one ends, the first harmony note
\* starts when the last melody note ends, the first bass note starts when
\* the last harmony note ends, and no note of one voice overlaps in time with
\* a note of another voice.
C10_VoicesEndToEnd ==
    pc = "saved" =>
        /\ \A i \in 1..(Len(midi) - 1) :
              midi[i].track = midi[i + 1].track => midi[i + 1].time = NoteEnd(midi[i])
        /\ \A i \in 1..(Len(midi) - 1) :
              midi[i].track # midi[i + 1].track => midi[i + 1].time = NoteEnd(midi[i])
        /\ \A i, j \in 1..Len(midi) :
              midi[i].track # midi[j].track =>
                  (NoteEnd(midi[i]) <= midi[j].time \/ NoteEnd(midi[j]) <= midi[i].time)

====
